---------------------------- MODULE Spec2Model ----------------------------
(***************************************************************************)
(* A model of scripts/push-to-anki.py: the renderers and the note builder  *)
(* (card_to_note), the AnkiConnect request primitives, the batching push   *)
(* loop and the command-line driver (main), together with the AnkiConnect  *)
(* server and the file system the script talks to.                         *)
(*                                                                         *)
(* JSON values are tagged records [t, v]; a string is a sequence of        *)
(* one-character strings, so that escaping is computed character by        *)
(* character.  Rendered HTML is a sequence of segments: literal markup of  *)
(* the templates ("m"), generated numbers ("n") and text that comes from   *)
(* the card ("u").                                                         *)
(***************************************************************************)
EXTENDS Integers, Sequences, FiniteSets, TLC

VARIABLES
    \* --- note building (card_to_note applied to one card)
    rcard, rout,
    \* --- request primitive (anki_request / anki_request_addnotes on one response)
    qaction, qresp, qout,
    \* --- push_notes on a list of notes
    pnotes, pframe, pcalls, presps, pstate,
    \* --- a run of main(): the environment
    argv, srv0, srvSeq, failAt,
    \* --- a run of main(): the program
    srvModel, srvNotes, pc, fileIdx, cur, totals, calls, resps, reads, out, err, hist,
    \* --- the ordering list of a card in the page: its script at work
    ocount, olist, oshuffled, oprev, olast

renderVars == <<rcard, rout>>
clientVars == <<qaction, qresp, qout>>
pushVars   == <<pnotes, pframe, pcalls, presps, pstate>>
envVars    == <<argv, srv0, srvSeq, failAt>>
runVars    == <<srvModel, srvNotes, pc, fileIdx, cur, totals, calls, resps, reads, out,
                err, hist>>
orderVars  == <<ocount, olist, oshuffled, oprev, olast>>
vars       == <<renderVars, clientVars, pushVars, envVars, runVars, orderVars>>

-----------------------------------------------------------------------------
(* JSON values and the Python primitives the script applies to them *)

S(chars) == [t |-> "str", v |-> chars]
I(n)     == [t |-> "int", v |-> n]
B(b)     == [t |-> "bool", v |-> b]
L(elems) == [t |-> "list", v |-> elems]
NULL     == [t |-> "null"]

\* dict.get(key, default)
Get(d, key, default) == IF key \in DOMAIN d THEN d[key] ELSE default

\* isinstance(x, str), isinstance(x, list); isinstance(x, int) is true of a bool
IsStr(x)  == x.t = "str"
IsList(x) == x.t = "list"
IsInt(x)  == x.t \in {"int", "bool"}

\* bool(x): None, "", 0, False and [] are falsy
Truthy(x) ==
    CASE x.t = "null" -> FALSE
      [] x.t = "str"  -> x.v # <<>>
      [] x.t = "list" -> x.v # <<>>
      [] x.t = "int"  -> x.v # 0
      [] x.t = "bool" -> x.v

\* what a for loop or enumerate() goes through: the elements of a list, the
\* characters of a string
Iterable(x) == x.t \in {"list", "str"}
Iter(x) == IF x.t = "list" THEN x.v ELSE [i \in 1..Len(x.v) |-> S(<<x.v[i]>>)]

RECURSIVE Flatten(_)
Flatten(ss) == IF ss = <<>> THEN <<>> ELSE Head(ss) \o Flatten(Tail(ss))

UPPER == <<"A","B","C","D","E","F","G","H","I","J","K","L","M",
           "N","O","P","Q","R","S","T","U","V","W","X","Y","Z">>
LOWER == <<"a","b","c","d","e","f","g","h","i","j","k","l","m",
           "n","o","p","q","r","s","t","u","v","w","x","y","z">>
DIGITS == <<"0","1","2","3","4","5","6","7","8","9">>

IndexIn(c, seq) == IF \E i \in 1..Len(seq) : seq[i] = c
                   THEN CHOOSE i \in 1..Len(seq) : seq[i] = c
                   ELSE 0

\* str.upper() and str.lower(), one character
UpperChar(c) == IF IndexIn(c, LOWER) > 0 THEN UPPER[IndexIn(c, LOWER)] ELSE c
LowerChar(c) == IF IndexIn(c, UPPER) > 0 THEN LOWER[IndexIn(c, UPPER)] ELSE c
LowerStr(chars) == [i \in 1..Len(chars) |-> LowerChar(chars[i])]

\* ord() of the characters of the model's alphabet
Ord(c) ==
    CASE IndexIn(c, UPPER) > 0  -> 64 + IndexIn(c, UPPER)
      [] IndexIn(c, LOWER) > 0  -> 96 + IndexIn(c, LOWER)
      [] IndexIn(c, DIGITS) > 0 -> 47 + IndexIn(c, DIGITS)
      [] c = " "  -> 32
      [] c = "\"" -> 34
      [] c = "#"  -> 35
      [] c = "&"  -> 38
      [] c = "'"  -> 39
      [] c = "-"  -> 45
      [] c = "/"  -> 47
      [] c = ":"  -> 58
      [] c = ";"  -> 59
      [] c = "<"  -> 60
      [] c = ">"  -> 62

\* chr(65 + i)
Letter(i) == UPPER[i + 1]

\* str(n) of a small natural number
RECURSIVE NatStr(_)
NatStr(n) == IF n < 10 THEN <<DIGITS[n + 1]>>
             ELSE NatStr(n \div 10) \o <<DIGITS[(n % 10) + 1]>>

\* str(x) of a JSON scalar
PyStr(x) ==
    CASE x.t = "str"  -> x.v
      [] x.t = "int"  -> IF x.v < 0 THEN <<"-">> \o NatStr(-x.v) ELSE NatStr(x.v)
      [] x.t = "bool" -> IF x.v THEN <<"T","r","u","e">> ELSE <<"F","a","l","s","e">>
      [] x.t = "null" -> <<"N","o","n","e">>

\* "needle" in haystack
Contains(hay, needle) ==
    \E i \in 0..(Len(hay) - Len(needle)) :
        \A j \in 1..Len(needle) : hay[i + j] = needle[j]

StartsWith(chars, prefix) ==
    /\ Len(chars) >= Len(prefix)
    /\ \A j \in 1..Len(prefix) : chars[j] = prefix[j]

\* html.escape(s, quote=True), one character
EscapeChar(c) ==
    CASE c = "&"  -> <<"&","a","m","p",";">>
      [] c = "<"  -> <<"&","l","t",";">>
      [] c = ">"  -> <<"&","g","t",";">>
      [] c = "\"" -> <<"&","q","u","o","t",";">>
      [] c = "'"  -> <<"&","#","x","2","7",";">>
      [] OTHER    -> <<c>>

HtmlEscape(chars) == Flatten([i \in 1..Len(chars) |-> EscapeChar(chars[i])])

\* esc(text)
esc(x) == HtmlEscape(PyStr(x))

-----------------------------------------------------------------------------
(* Rendered HTML: segments.  M: a literal of the template (the style         *)
(* constants CONTAINER, QUESTION_BOX, ... are written by name), N: a number  *)
(* the renderer generates, U: characters that come from the card.            *)

M(s)     == [k |-> "m", s |-> s]
N(n)     == [k |-> "n", s |-> n]
U(chars) == [k |-> "u", s |-> chars]

T_SINGLE   == <<"s","i","n","g","l","e","-","c","h","o","i","c","e">>
T_MULTI    == <<"m","u","l","t","i","-","s","e","l","e","c","t">>
T_ORDERING == <<"o","r","d","e","r","i","n","g">>
T_HOTAREA  == <<"c","o","d","e","-","h","o","t","a","r","e","a">>
W_SELECT   == <<"s","e","l","e","c","t">>
W_UNKNOWN  == <<"u","n","k","n","o","w","n">>
W_TEXT     == <<"t","e","x","t">>
W_HTTP     == <<"h","t","t","p",":","/","/">>
W_HTTPS    == <<"h","t","t","p","s",":","/","/">>

MODEL_NAME == "AZ204 PREP Interactive"
BATCH_SIZE == 10
REQUIRED_CARD_FIELDS == {"question", "explanation", "keyPoints", "reference"}
MODEL_FIELDS == <<"Question", "Type", "Options", "Answer", "Explanation",
                  "KeyPoints", "Reference", "OrderItems", "CodeBlock">>

\* wrap_question(text, card_type, correct_count)
wrap_question(text, card_type, correct_count) ==
    LET has_select_hint == Contains(LowerStr(text.v), W_SELECT)
        hint ==
            IF card_type = S(T_MULTI) /\ ~has_select_hint
            THEN <<M("<div hint>"), M("Select "), N(correct_count), M(" answer"),
                   M(IF correct_count > 1 THEN "s" ELSE ""), M("</div>")>>
            ELSE IF card_type = S(T_ORDERING)
            THEN <<M("<div hint>"),
                   M("Drag or use arrows to arrange in correct order"), M("</div>")>>
            ELSE IF card_type = S(T_HOTAREA)
            THEN <<M("<div hint>"), M("Click on the line(s) with errors"), M("</div>")>>
            ELSE <<>>
    IN  <<M("<div style=CONTAINER>"), M("<strong>Question:</strong>"), M("<br><br>"),
          M("<div style=QUESTION_BOX>"), U(esc(text)), M("</div>")>>
        \o hint \o <<M("</div>")>>

\* wrap_options_single(options)
wrap_options_single(options) ==
    LET opts  == Iter(options)
        items == Flatten([j \in 1..Len(opts) |->
                    <<M("<li onclick=select-one>"), M("<strong>"), M(Letter(j - 1)),
                      M(".</strong> "), U(esc(opts[j])), M("</li>")>>])
    IN  <<M("<div style=CONTAINER>"), M("<strong>Options:</strong>"), M("<ul>")>>
        \o items \o <<M("</ul>"), M("</div>")>>

\* wrap_options_multi(options)
wrap_options_multi(options) ==
    LET opts  == Iter(options)
        items == Flatten([j \in 1..Len(opts) |->
                    <<M("<li id=opt_"), N(j - 1), M(" onclick=toggle cb_"), N(j - 1),
                      M("<input type=checkbox id=cb_"), N(j - 1), M("<strong>"),
                      M(Letter(j - 1)), M(".</strong> "), U(esc(opts[j])), M("</li>")>>])
    IN  <<M("<div style=CONTAINER>"), M("<strong>Options:</strong>"), M("<ul>")>>
        \o items \o <<M("</ul>"), M("</div>")>>

\* wrap_order_items(items)
wrap_order_items(items) ==
    LET its      == Iter(items)
        li_items == Flatten([j \in 1..Len(its) |->
                    <<M("<li id=ord_"), N(j - 1), M("<span>"), N(j), M(".</span>"),
                      M("<span>"), U(esc(its[j])), M("</span>"),
                      M("<button onclick=moveItem(ord_"), N(j - 1), M(",-1)>"),
                      M("<button onclick=moveItem(ord_"), N(j - 1), M(",1)>"),
                      M("</li>")>>])
    IN  <<M("<div style=CONTAINER>"), M("<strong>Arrange in order:</strong>"),
          M("<ul id=orderList>")>>
        \o li_items
        \o <<M("</ul>"), M("<script>moveItem renumber shuffleOrder</script>"),
             M("</div>")>>

\* wrap_code_hotarea(code_lines, language)
wrap_code_hotarea(code_lines, language) ==
    LET lines      == Iter(code_lines)
        lines_html == Flatten([j \in 1..Len(lines) |->
                    <<M("<div id=codeline_"), N(j - 1), M(" onclick=toggle>"),
                      M("<span>"), N(j), M("</span>"), U(esc(lines[j])), M("</div>")>>])
    IN  <<M("<div style=CONTAINER>"), M("<strong>Code ("), U(esc(language)),
          M("):</strong>"), M("<div style=CODE_BG>")>>
        \o lines_html \o <<M("</div>"), M("</div>")>>

\* options[idx] if 0 <= idx < len(options) else ""
OptionText(letter, options) ==
    LET idx == Ord(UpperChar(letter.v[1])) - Ord("A")
    IN  IF 0 <= idx /\ idx < Len(Iter(options)) THEN Iter(options)[idx + 1] ELSE S(<<>>)

\* wrap_answer_single(letter, options): the letter is embedded as it is
wrap_answer_single(letter, options) ==
    LET option_text == OptionText(letter, options)
        display == IF Truthy(option_text)
                   THEN <<U(letter.v), M(" ("), U(esc(option_text)), M(")")>>
                   ELSE <<U(letter.v)>>
    IN  <<M("<div style=CORRECT_BOX>"), M("<span>Correct Answer:</span> "),
          M("<strong>")>> \o display \o <<M("</strong>"), M("</div>")>>

\* wrap_answer_multi(letters, options): each letter is embedded as it is
wrap_answer_multi(letters, options) ==
    LET ls    == Iter(letters)
        items == Flatten([j \in 1..Len(ls) |->
                    <<M("<div>"), M("<strong>"), U(ls[j].v), M(".</strong> "),
                      M("<span>"), U(esc(OptionText(ls[j], options))),
                      M("</span></div>")>>])
    IN  <<M("<div style=CORRECT_BOX>"), M("<span>Correct Answers ("), N(Len(ls)),
          M("):</span>"), M("<div>")>> \o items \o <<M("</div>"), M("</div>")>>

\* wrap_answer_ordering(order_items)
wrap_answer_ordering(order_items) ==
    LET its   == Iter(order_items)
        items == Flatten([j \in 1..Len(its) |->
                    <<M("<div>"), M("<strong>"), N(j), M(".</strong>"),
                      M("<span>"), U(esc(its[j])), M("</span></div>")>>])
    IN  <<M("<div style=CORRECT_BOX>"), M("<span>Correct Order:</span>"), M("<div>")>>
        \o items \o <<M("</div>"), M("</div>")>>

\* i in error_indices (True == 1 and False == 0 in Python)
IntOf(x) == IF x.t = "bool" THEN (IF x.v THEN 1 ELSE 0) ELSE x.v
InIndices(i, error_indices) ==
    \E e \in 1..Len(error_indices.v) : IntOf(error_indices.v[e]) = i

\* wrap_answer_code_hotarea(code_lines, error_indices, language)
wrap_answer_code_hotarea(code_lines, error_indices, language) ==
    LET lines      == Iter(code_lines)
        lines_html == Flatten([j \in 1..Len(lines) |->
                    <<M(IF InIndices(j - 1, error_indices)
                        THEN "<div error-line>" ELSE "<div line>"),
                      M("<span>"), N(j), M("</span>"), U(esc(lines[j])),
                      M(IF InIndices(j - 1, error_indices)
                        THEN "<span>ERROR</span>" ELSE ""),
                      M("</div>")>>])
    IN  <<M("<div style=error_box_style>"), M("<span>Error Line"),
          M(IF Len(error_indices.v) > 1 THEN "s" ELSE ""), M(":</span>"),
          M("<div style=CODE_BG>")>>
        \o lines_html \o <<M("</div>"), M("</div>")>>

\* wrap_explanation(text)
wrap_explanation(text) ==
    <<M("<div style=EXPLANATION_BOX>"), M("<span>Explanation:</span><br><br>"),
      U(esc(text)), M("</div>")>>

\* wrap_key_points(points)
wrap_key_points(points) ==
    LET ps    == Iter(points)
        items == Flatten([j \in 1..Len(ps) |->
                    <<M("<li>"), U(esc(ps[j])), M("</li>")>>])
    IN  <<M("<div>"), M("<span>Key Points:</span>"), M("<ul>")>>
        \o items \o <<M("</ul>"), M("</div>")>>

\* wrap_reference(url)
wrap_reference(url) ==
    LET u        == IF ~(StartsWith(url.v, W_HTTP) \/ StartsWith(url.v, W_HTTPS))
                    THEN S(<<"#">>) ELSE url
        safe_url == esc(u)
    IN  <<M("<div style=REFERENCE_BOX>"), M("<span>Reference:</span><br>"),
          M("<a href=\""), U(safe_url), M("\" target=_blank>"), U(safe_url),
          M("</a></div>")>>

-----------------------------------------------------------------------------
(* Card -> Note conversion.  A card is a function from the keys it has to    *)
(* JSON values.  A call returns [ok |-> TRUE, ...] or the exception it       *)
(* raises: [ok |-> FALSE, exc, by, msgId], msgId being the card id the       *)
(* message names (NoId when it names none).                                  *)

NoId == [t |-> "none"]
Raise(exc, by, msgId) == [ok |-> FALSE, exc |-> exc, by |-> by, msgId |-> msgId]
Return(value) == [ok |-> TRUE, value |-> value]

AllOf(xs, P(_)) == \A j \in 1..Len(xs) : P(xs[j])

\* validate_card(card)
validate_card(card) ==
    LET card_id   == Get(card, "id", S(W_UNKNOWN))
        missing   == REQUIRED_CARD_FIELDS \ DOMAIN card
        card_type == Get(card, "type", S(T_SINGLE))
        answer    == Get(card, "answer", NULL)
    IN  IF missing # {} THEN Raise("ValueError", "validate_card", card_id)
        ELSE IF card_type = S(T_MULTI)
        THEN IF ~IsList(answer) \/ ~AllOf(answer.v, IsStr)
             THEN Raise("ValueError", "validate_card", card_id)
             ELSE Return(NULL)
        ELSE IF card_type = S(T_ORDERING) \/ card_type = S(T_HOTAREA)
        THEN IF ~IsList(answer) \/ ~AllOf(answer.v, IsInt)
             THEN Raise("ValueError", "validate_card", card_id)
             ELSE Return(NULL)
        ELSE Return(NULL)

OneChar(x) == Len(x.v) = 1

\* The first exception the body of card_to_note raises after validation, in
\* the order the statements run; Return(NULL) when it raises none.
BuildRaises(card) ==
    LET card_type   == Get(card, "type", S(T_SINGLE))
        options     == Get(card, "options", L(<<>>))
        order_items == Get(card, "orderItems", L(<<>>))
        code_lines  == Get(card, "codeLines", L(<<>>))
        answer      == Get(card, "answer", S(<<>>))
        typeRaises ==
            IF card_type = S(T_SINGLE)
            THEN IF ~Iterable(options) THEN Raise("TypeError", "wrap_options_single", NoId)
                 ELSE IF ~IsStr(answer) THEN Raise("AttributeError", "wrap_answer_single", NoId)
                 ELSE IF ~OneChar(answer) THEN Raise("TypeError", "wrap_answer_single", NoId)
                 ELSE Return(NULL)
            ELSE IF card_type = S(T_MULTI)
            THEN IF ~Iterable(options) THEN Raise("TypeError", "wrap_options_multi", NoId)
                 ELSE IF ~AllOf(answer.v, OneChar) THEN Raise("TypeError", "wrap_answer_multi", NoId)
                 ELSE Return(NULL)
            ELSE IF card_type = S(T_ORDERING)
            THEN IF ~Iterable(order_items) THEN Raise("TypeError", "wrap_answer_ordering", NoId)
                 ELSE Return(NULL)
            ELSE IF card_type = S(T_HOTAREA)
            THEN IF ~Iterable(code_lines) THEN Raise("TypeError", "wrap_answer_code_hotarea", NoId)
                 ELSE Return(NULL)
            ELSE Raise("ValueError", "card_to_note", NoId)
    IN  IF ~IsStr(card["question"]) THEN Raise("AttributeError", "wrap_question", NoId)
        ELSE IF ~typeRaises.ok THEN typeRaises
        ELSE IF ~Iterable(card["keyPoints"]) THEN Raise("TypeError", "wrap_key_points", NoId)
        ELSE IF ~IsStr(card["reference"]) THEN Raise("AttributeError", "wrap_reference", NoId)
        ELSE Return(NULL)

\* A faulty layout: the options are rendered for every type of card
NoteFieldsWithOptions(card) ==
    LET card_type     == Get(card, "type", S(T_SINGLE))
        options       == Get(card, "options", L(<<>>))
        order_items   == Get(card, "orderItems", L(<<>>))
        code_lines    == Get(card, "codeLines", L(<<>>))
        language      == Get(card, "language", S(W_TEXT))
        answer        == Get(card, "answer", S(<<>>))
        correct_count == IF IsList(answer) THEN Len(answer.v) ELSE 0
    IN  [Type        |-> <<U(card_type.v)>>,
         Question    |-> wrap_question(card["question"], card_type, correct_count),
         Options     |-> IF card_type = S(T_MULTI) THEN wrap_options_multi(options)
                         ELSE wrap_options_single(options),
         Answer      |->
            CASE card_type = S(T_SINGLE)   -> wrap_answer_single(answer, options)
              [] card_type = S(T_MULTI)    -> wrap_answer_multi(answer, options)
              [] card_type = S(T_ORDERING) -> wrap_answer_ordering(order_items)
              [] card_type = S(T_HOTAREA)  ->
                     wrap_answer_code_hotarea(code_lines, answer, language),
         Explanation |-> wrap_explanation(card["explanation"]),
         KeyPoints   |-> wrap_key_points(card["keyPoints"]),
         Reference   |-> wrap_reference(card["reference"]),
         OrderItems  |-> IF card_type = S(T_ORDERING) THEN wrap_order_items(order_items)
                         ELSE <<>>,
         CodeBlock   |-> IF card_type = S(T_HOTAREA)
                         THEN wrap_code_hotarea(code_lines, language) ELSE <<>>]

\* The fields card_to_note lays out, for a card that raises nothing
NoteFields(card) ==
    LET card_type     == Get(card, "type", S(T_SINGLE))
        options       == Get(card, "options", L(<<>>))
        order_items   == Get(card, "orderItems", L(<<>>))
        code_lines    == Get(card, "codeLines", L(<<>>))
        language      == Get(card, "language", S(W_TEXT))
        answer        == Get(card, "answer", S(<<>>))
        correct_count == IF IsList(answer) THEN Len(answer.v) ELSE 0
        question_html == wrap_question(card["question"], card_type, correct_count)
        options_html ==
            CASE card_type = S(T_SINGLE) -> wrap_options_single(options)
              [] card_type = S(T_MULTI)  -> wrap_options_multi(options)
              [] OTHER                   -> <<>>
        answer_html ==
            CASE card_type = S(T_SINGLE)   -> wrap_answer_single(answer, options)
              [] card_type = S(T_MULTI)    -> wrap_answer_multi(answer, options)
              [] card_type = S(T_ORDERING) -> wrap_answer_ordering(order_items)
              [] card_type = S(T_HOTAREA)  ->
                     wrap_answer_code_hotarea(code_lines, answer, language)
        order_html ==
            IF card_type = S(T_ORDERING) THEN wrap_order_items(order_items) ELSE <<>>
        code_html ==
            IF card_type = S(T_HOTAREA) THEN wrap_code_hotarea(code_lines, language)
            ELSE <<>>
    IN  [Type        |-> <<U(card_type.v)>>,
         Question    |-> question_html,
         Options     |-> options_html,
         Answer      |-> answer_html,
         Explanation |-> wrap_explanation(card["explanation"]),
         KeyPoints   |-> wrap_key_points(card["keyPoints"]),
         Reference   |-> wrap_reference(card["reference"]),
         OrderItems  |-> order_html,
         CodeBlock   |-> code_html]

\* card_to_note(card, deck_name)
card_to_note(card, deck_name) ==
    IF ~validate_card(card).ok THEN validate_card(card)
    ELSE IF ~BuildRaises(card).ok THEN BuildRaises(card)
    ELSE Return([deckName  |-> deck_name,
                 modelName |-> MODEL_NAME,
                 fields    |-> NoteFields(card),
                 tags      |-> Get(card, "tags", L(<<>>))])

-----------------------------------------------------------------------------
(* The cards the model builds notes from: every combination of the choices   *)
(* below, a key being left out of the card when its choice is ABSENT.        *)

ABSENT == [t |-> "absent"]
Field(key, val) == IF val = ABSENT THEN <<>> ELSE key :> val

TypeChoices ==
    {ABSENT, S(T_SINGLE), S(T_MULTI), S(T_ORDERING), S(T_HOTAREA),
     S(<<"q","u","i","z">>)}
QuestionChoices ==
    {S(<<"a","<","b">>), S(<<"S","e","l","e","c","t"," ","&">>), I(7)}
AnswerChoices ==
    {ABSENT, S(<<"B">>), S(<<"b">>), S(<<"<">>), S(<<>>), S(<<"A","B">>), I(1),
     L(<<>>), L(<<S(<<"A">>), S(<<"C">>)>>), L(<<S(<<"&">>)>>),
     L(<<S(<<"A","C">>)>>), L(<<I(0), I(2)>>), L(<<B(TRUE)>>),
     L(<<S(<<"A">>), I(1)>>)}
OptionsChoices ==
    {ABSENT, L(<<S(<<"x">>), S(<<"y",">">>), S(<<"\"","z","\"">>)>>)}
\* orderItems, codeLines, language
ExtraChoices ==
    {<<ABSENT, ABSENT, ABSENT>>,
     <<L(<<S(<<"o","n","e">>), S(<<"<","2",">">>)>>),
       L(<<S(<<"a","&","b">>), S(<<"'","c","'">>), I(3)>>),
       S(<<"c","\"">>)>>}
\* explanation, keyPoints, reference
RequiredChoices ==
    {<<S(<<"e",">">>), L(<<S(<<"k","<">>), I(5)>>), S(W_HTTPS \o <<"x","&","y">>)>>,
     <<S(<<"e",">">>), L(<<>>), S(<<"j","s",":","<",">">>)>>,
     <<ABSENT, L(<<S(<<"k">>)>>), S(W_HTTP \o <<"x">>)>>,
     <<S(<<"e">>), ABSENT, S(W_HTTP \o <<"x">>)>>,
     <<S(<<"e">>), NULL, S(W_HTTP \o <<"x">>)>>,
     <<NULL, S(<<"k","&">>), S(W_HTTP \o <<"\"">>)>>,
     <<S(<<"e">>), L(<<S(<<"k">>)>>), ABSENT>>,
     <<S(<<"e">>), L(<<S(<<"k">>)>>), NULL>>}
\* id, tags
IdChoices ==
    {<<ABSENT, ABSENT>>, <<S(<<"c","1">>), L(<<S(<<"t","a","g">>)>>)>>}

MkCard(ty, q, an, op, ex, rq, it) ==
    Field("type", ty) @@ Field("question", q) @@ Field("answer", an)
    @@ Field("options", op)
    @@ Field("orderItems", ex[1]) @@ Field("codeLines", ex[2]) @@ Field("language", ex[3])
    @@ Field("explanation", rq[1]) @@ Field("keyPoints", rq[2]) @@ Field("reference", rq[3])
    @@ Field("id", it[1]) @@ Field("tags", it[2])

Cards ==
    {MkCard(ty, q, an, op, ex, rq, it) :
        ty \in TypeChoices, q \in QuestionChoices \cup {ABSENT}, an \in AnswerChoices,
        op \in OptionsChoices, ex \in ExtraChoices, rq \in RequiredChoices,
        it \in IdChoices}

RenderDeck == "Deck"
Pending == [ok |-> FALSE, exc |-> "", by |-> "pending", msgId |-> NoId]

-----------------------------------------------------------------------------
(* AnkiConnect helpers.  A response is the parsed JSON object, a function    *)
(* from the keys it has to JSON values; NoResponse stands for urlopen        *)
(* raising (connection refused).                                             *)

NoResponse == [t |-> "neterr"]
Arrived(resp) == resp # NoResponse

\* anki_request(action, **params), given the response the server sends
anki_request(action, resp) ==
    IF ~Arrived(resp) THEN Raise("URLError", "urlopen", NoId)
    ELSE IF Truthy(Get(resp, "error", NULL)) THEN Raise("RuntimeError", "anki_request", NoId)
    ELSE IF "result" \notin DOMAIN resp THEN Raise("KeyError", "anki_request", NoId)
    ELSE Return(resp["result"])

\* A faulty client: addNotes goes through the check of anki_request, which raises on a
\* list-shaped error too
AddNotesNoListCase(resp) ==
    IF ~Arrived(resp) THEN Raise("URLError", "urlopen", NoId)
    ELSE IF Truthy(Get(resp, "error", NULL))
    THEN Raise("RuntimeError", "anki_request_addnotes", NoId)
    ELSE Return(Get(resp, "result", L(<<>>)))

\* anki_request_addnotes(notes), given the response the server sends
anki_request_addnotes(resp) ==
    LET error == Get(resp, "error", NULL)
    IN  IF ~Arrived(resp) THEN Raise("URLError", "urlopen", NoId)
        ELSE IF Truthy(error) /\ ~IsList(error)
        THEN Raise("RuntimeError", "anki_request_addnotes", NoId)
        ELSE Return(Get(resp, "result", L(<<>>)))

API_ACTIONS == {"version", "createDeck", "modelNames", "modelFieldNames",
            "createModel", "addNotes", "findNotes", "deleteNotes"}

\* The request primitive the script uses for an action
Request(action, resp) ==
    IF action = "addNotes" THEN anki_request_addnotes(resp)
    ELSE anki_request(action, resp)

ErrorChoices ==
    {ABSENT, NULL, S(<<>>), S(<<"e","r","r">>), I(0), I(1), B(FALSE), B(TRUE),
     L(<<>>), L(<<S(<<"e">>)>>), L(<<NULL, S(<<"e">>)>>)}
ResultChoices ==
    {ABSENT, NULL, I(6), L(<<>>), L(<<I(1), NULL>>)}
Responses ==
    {Field("result", r) @@ Field("error", e) : r \in ResultChoices, e \in ErrorChoices}
    \cup {NoResponse}

-----------------------------------------------------------------------------
(* Push logic *)

Min(a, b) == IF a < b THEN a ELSE b

\* A faulty slice: it stops one note early, notes[i : i + BATCH_SIZE - 1]
BatchDropsLast(notes, i) == SubSeq(notes, i + 1, Min(i + BATCH_SIZE - 1, Len(notes)))

\* A faulty slice: it runs one note into the next batch, notes[i : i + BATCH_SIZE + 1]
BatchOverlaps(notes, i) == SubSeq(notes, i + 1, Min(i + BATCH_SIZE + 1, Len(notes)))

\* notes[i : i + BATCH_SIZE]
Batch(notes, i) == SubSeq(notes, i + 1, Min(i + BATCH_SIZE, Len(notes)))

\* A faulty tally: a null slot counts as created, any other as a duplicate
RECURSIVE TallySwapped(_, _)
TallySwapped(frame, results) ==
    IF results = <<>> THEN frame
    ELSE TallySwapped(IF Head(results) = NULL
                      THEN [frame EXCEPT !.created = @ + 1]
                      ELSE [frame EXCEPT !.duplicates = @ + 1],
                      Tail(results))

\* for r in results: duplicates += 1 if r is None else created += 1
RECURSIVE Tally(_, _)
Tally(frame, results) ==
    IF results = <<>> THEN frame
    ELSE Tally(IF Head(results) = NULL
               THEN [frame EXCEPT !.duplicates = @ + 1]
               ELSE [frame EXCEPT !.created = @ + 1],
               Tail(results))

\* push_notes(notes) before its loop
PushStart == [i |-> 0, created |-> 0, duplicates |-> 0]

\* range(0, len(notes), BATCH_SIZE) has an element left
PushMore(frame, notes) == frame.i < Len(notes)

\* One pass of the loop of push_notes, given the response to its addNotes call:
\* the frame after the pass, or the exception that ends push_notes
PushPass(frame, resp) ==
    LET results == anki_request_addnotes(resp)
    IN  IF ~results.ok THEN results
        ELSE IF ~Iterable(results.value) THEN Raise("TypeError", "push_notes", NoId)
        ELSE Return([Tally(frame, Iter(results.value)) EXCEPT !.i = @ + BATCH_SIZE])

-----------------------------------------------------------------------------
(* The environment of a run: the deck files on disk and the AnkiConnect      *)
(* server.  Names the script only passes on or compares (deck names, model   *)
(* and field names, paths) are atomic strings.                               *)

BigDeckSize == 11

QText(j) == <<"q">> \o NatStr(j)

\* A well-formed card of each type, by position in the file
GoodCard(j) ==
    LET common == ("id" :> S(<<"c">> \o NatStr(j))) @@ ("question" :> S(QText(j)))
                  @@ ("explanation" :> S(<<"e">>)) @@ ("keyPoints" :> L(<<S(<<"k">>)>>))
                  @@ ("reference" :> S(W_HTTPS \o <<"x">>))
    IN  CASE j % 4 = 1 -> common @@ ("answer" :> S(<<"A">>))
                          @@ ("options" :> L(<<S(<<"x">>), S(<<"y">>)>>))
          [] j % 4 = 2 -> common @@ ("type" :> S(T_MULTI))
                          @@ ("answer" :> L(<<S(<<"A">>), S(<<"B">>)>>))
                          @@ ("options" :> L(<<S(<<"x">>), S(<<"y">>)>>))
          [] j % 4 = 3 -> common @@ ("type" :> S(T_ORDERING))
                          @@ ("answer" :> L(<<I(0), I(1)>>))
                          @@ ("orderItems" :> L(<<S(<<"f">>), S(<<"g">>)>>))
          [] j % 4 = 0 -> common @@ ("type" :> S(T_HOTAREA))
                          @@ ("answer" :> L(<<I(0)>>))
                          @@ ("codeLines" :> L(<<S(<<"x","<","y">>)>>))

\* The same card without its keyPoints: validate_card rejects it
BadCard(j) == [k \in (DOMAIN GoodCard(j)) \ {"keyPoints"} |-> GoodCard(j)[k]]

\* A multi-select card whose answer is a string: validate_card rejects it
BadAnswerCard(j) == [GoodCard(2) EXCEPT !["id"] = S(<<"c">> \o NatStr(j)),
                                        !["answer"] = S(<<"A">>)]

NoFile == [exists |-> FALSE]
DeckFile(deckName, cards) ==
    [exists |-> TRUE, deckName |-> deckName, cards |-> cards]

Paths == {"missing.json", "a.json", "b.json", "c.json", "d.json"}

\* What is on disk at each path
Files ==
    [path \in Paths |->
        CASE path = "a.json" -> DeckFile("D1", [j \in 1..BigDeckSize |-> GoodCard(j)])
          [] path = "b.json" -> DeckFile("D1", <<GoodCard(21), BadCard(22), GoodCard(23)>>)
          [] path = "c.json" -> DeckFile("D2", <<GoodCard(31), GoodCard(31), GoodCard(32)>>)
          [] path = "d.json" -> DeckFile("D2", <<GoodCard(41), GoodCard(42), BadAnswerCard(43)>>)
          [] OTHER           -> NoFile]

\* Path(filepath).exists() and json.loads(path.read_text())
Disk(path) == Files[path]

DeckNames == {"D1", "D2"}

\* A note as the server stores it: its id, its deck and its first field
Stored(id, deckName, front) == [id |-> id, deckName |-> deckName, front |-> front]

FrontOf(path, j) ==
    card_to_note(Disk(path).cards[j], Disk(path).deckName).value.fields.Question

\* The notes the collection may hold before the run
InitialNotes ==
    {<<>>,
     <<Stored(101, "D1", FrontOf("a.json", 2)),
       Stored(102, "D9", FrontOf("a.json", 1)),
       Stored(103, "D1", FrontOf("b.json", 1)),
       Stored(104, "D2", FrontOf("c.json", 3))>>}

\* The models the collection may hold before the run: the names of its models
\* and the fields of the one named MODEL_NAME
InitialModels ==
    {[names |-> <<"Basic">>, fields |-> <<>>],
     [names |-> <<"Basic", MODEL_NAME>>, fields |-> MODEL_FIELDS],
     [names |-> <<MODEL_NAME>>, fields |-> <<"Extra">> \o MODEL_FIELDS],
     [names |-> <<"Basic", MODEL_NAME>>,
      fields |-> SelectSeq(MODEL_FIELDS, LAMBDA f : f # "OrderItems")],
     [names |-> <<MODEL_NAME, "Cloze">>, fields |-> <<"Front", "Back">>]}

OkResponse(result) == ("result" :> result) @@ ("error" :> NULL)
ErrResponse == ("result" :> NULL) @@ ("error" :> S(<<"e","r","r">>))

\* What the server answers to the n-th request of the run
Respond(n, result) ==
    IF failAt.n = n
    THEN (IF failAt.kind = "neterr" THEN NoResponse ELSE ErrResponse)
    ELSE OkResponse(result)

IsDuplicate(stored, note) ==
    \E j \in 1..Len(stored) :
        /\ stored[j].deckName = note.deckName
        /\ stored[j].front = note.fields.Question

NextId(stored) ==
    IF stored = <<>> THEN 1
    ELSE 1 + (CHOOSE m \in {stored[j].id : j \in 1..Len(stored)} :
                 \A j \in 1..Len(stored) : stored[j].id <= m)

\* addNotes on the server: the collection and the result slots after the notes
\* of the batch are taken one by one.  A note is a duplicate when its first
\* field is in its deck already: in the collection as it is now (srvSeq) or as
\* it was when the request arrived.
RECURSIVE ServerAdd(_, _, _, _)
ServerAdd(stored, base, batch, slots) ==
    IF batch = <<>> THEN [stored |-> stored, slots |-> slots]
    ELSE LET note == Head(batch)
             dup  == IsDuplicate(IF srvSeq THEN stored ELSE base, note)
             id   == NextId(stored)
         IN  IF dup
             THEN ServerAdd(stored, base, Tail(batch), Append(slots, NULL))
             ELSE ServerAdd(Append(stored, Stored(id, note.deckName, note.fields.Question)),
                            base, Tail(batch), Append(slots, I(id)))

\* findNotes deck:"<name>"
ServerFind(stored, deckName) ==
    LET found == SelectSeq(stored, LAMBDA n : n.deckName = deckName)
    IN  [j \in 1..Len(found) |-> I(found[j].id)]

\* deleteNotes
ServerDelete(stored, ids) ==
    SelectSeq(stored, LAMBDA n : ~\E j \in 1..Len(ids) : ids[j] = I(n.id))

-----------------------------------------------------------------------------
(* A run of main().  argv is sys.argv[1:]; srv0 is the collection as the run *)
(* finds it, srvModel and srvNotes the collection as it is now.  calls logs  *)
(* every request sent ([action, params], and at: the position in argv of the *)
(* file whose processing sent it, 0 outside the loop over the files), resps  *)
(* the result list of every addNotes call, reads the files read, out what is *)
(* printed; hist has one entry per process_file call that returned.  err is  *)
(* NoErr while the process runs or has ended normally, and otherwise tells   *)
(* how it ended: [status, exc, by, msgId].                                   *)

MaxFiles == 2
MaxFailAt == 6

NoErr == [status |-> 0]
Exit(status) == [status |-> status, exc |-> "SystemExit", by |-> "main", msgId |-> NoId]
\* An exception nothing catches: a traceback and exit status 1
Uncaught(r) == [status |-> 1, exc |-> r.exc, by |-> r.by, msgId |-> r.msgId]

Idle == [path |-> "", deckName |-> "", notes |-> <<>>, frame |-> PushStart, before |-> <<>>]

Call(action, params) ==
    [action |-> action, params |-> params,
     at |-> IF pc \in {"files", "push"} THEN fileIdx ELSE 0]

Crash(r, newCalls) ==
    /\ pc' = "crashed"
    /\ err' = Uncaught(r)
    /\ calls' = newCalls

\* main(): the argument checks
ParseArgs ==
    /\ pc = "start"
    /\ IF Len(argv) < 1
       THEN /\ pc' = "exited"
            /\ err' = Exit(1)
            /\ out' = Append(out, [kind |-> "usage"])
       ELSE IF argv[1] = "--delete-deck"
       THEN IF Len(argv) < 2
            THEN /\ pc' = "exited"
                 /\ err' = Exit(1)
                 /\ out' = Append(out, [kind |-> "usage"])
            ELSE /\ pc' = "check_connection"
                 /\ UNCHANGED <<err, out>>
       ELSE /\ pc' = "check_connection"
            /\ UNCHANGED <<err, out>>
    /\ UNCHANGED <<srvModel, srvNotes, fileIdx, cur, totals, calls, resps, reads, hist>>
    /\ UNCHANGED <<renderVars, clientVars, pushVars, envVars, orderVars>>

\* A faulty main(): it goes on whatever check_connection() returns
CheckConnectionIgnored ==
    /\ pc = "check_connection"
    /\ LET ver == anki_request("version", Respond(Len(calls) + 1, I(6)))
       IN  /\ calls' = Append(calls, Call("version", <<>>))
           /\ out' = Append(out, [kind |-> IF ver.ok THEN "connected"
                                           ELSE "not available"])
           /\ pc' = IF argv[1] = "--delete-deck" THEN "delete_deck"
                    ELSE "ensure_model"
           /\ err' = err
    /\ UNCHANGED <<srvModel, srvNotes, fileIdx, cur, totals, resps, reads, hist>>
    /\ UNCHANGED <<renderVars, clientVars, pushVars, envVars, orderVars>>

\* check_connection(), and main() acting on what it returns
CheckConnection ==
    /\ pc = "check_connection"
    /\ LET ver == anki_request("version", Respond(Len(calls) + 1, I(6)))
       IN  /\ calls' = Append(calls, Call("version", <<>>))
           /\ IF ver.ok
              THEN /\ out' = Append(out, [kind |-> "connected"])
                   /\ pc' = IF argv[1] = "--delete-deck" THEN "delete_deck"
                            ELSE "ensure_model"
                   /\ err' = err
              ELSE /\ out' = Append(out, [kind |-> "not available"])
                   /\ pc' = "exited"
                   /\ err' = Exit(1)
    /\ UNCHANGED <<srvModel, srvNotes, fileIdx, cur, totals, resps, reads, hist>>
    /\ UNCHANGED <<renderVars, clientVars, pushVars, envVars, orderVars>>

\* A faulty test: deleteNotes is sent whatever findNotes returned
HasNotesAlways(note_ids) == TRUE

\* if note_ids:
HasNotes(note_ids) == Truthy(note_ids)

\* delete_deck_cards(sys.argv[2]), and main() printing the count
DeleteDeck ==
    /\ pc = "delete_deck"
    /\ LET find     == Call("findNotes", argv[2])
           note_ids == anki_request("findNotes",
                           Respond(Len(calls) + 1, L(ServerFind(srvNotes, argv[2]))))
           del      == Call("deleteNotes", note_ids.value)
           deleted  == anki_request("deleteNotes", Respond(Len(calls) + 2, NULL))
       IN  IF ~note_ids.ok
           THEN /\ Crash(note_ids, Append(calls, find))
                /\ UNCHANGED <<srvNotes, out>>
           ELSE IF ~HasNotes(note_ids.value)
           THEN /\ calls' = Append(calls, find)
                /\ out' = Append(out, [kind |-> "deleted", count |-> Len(note_ids.value.v)])
                /\ pc' = "done"
                /\ UNCHANGED <<srvNotes, err>>
           ELSE IF ~deleted.ok
           THEN /\ Crash(deleted, calls \o <<find, del>>)
                /\ UNCHANGED <<srvNotes, out>>
           ELSE /\ calls' = calls \o <<find, del>>
                /\ srvNotes' = ServerDelete(srvNotes, note_ids.value.v)
                /\ out' = Append(out, [kind |-> "deleted", count |-> Len(note_ids.value.v)])
                /\ pc' = "done"
                /\ err' = err
    /\ UNCHANGED <<srvModel, fileIdx, cur, totals, resps, reads, hist>>
    /\ UNCHANGED <<renderVars, clientVars, pushVars, envVars, orderVars>>

InList(x, xs) == \E j \in 1..Len(xs) : xs[j] = x

\* A faulty check: no field of the model is ever found missing
MissingNothing(existing_fields) == <<>>

\* missing = [f for f in MODEL_FIELDS if f not in existing_fields]
MissingFields(existing_fields) ==
    SelectSeq(MODEL_FIELDS, LAMBDA f : ~InList(f, existing_fields))

\* ensure_model()
EnsureModel ==
    /\ pc = "ensure_model"
    /\ LET names    == Call("modelNames", <<>>)
           existing == anki_request("modelNames", Respond(Len(calls) + 1, L(srvModel.names)))
           fieldsOf == Call("modelFieldNames", MODEL_NAME)
           existing_fields ==
               anki_request("modelFieldNames", Respond(Len(calls) + 2, L(srvModel.fields)))
           missing  == MissingFields(existing_fields.value.v)
           create   == Call("createModel",
                            [modelName |-> MODEL_NAME, inOrderFields |-> MODEL_FIELDS,
                             cardTemplates |-> <<[Name |-> "Card 1",
                                 Front |-> "{{Question}}{{Options}}{{OrderItems}}{{CodeBlock}}",
                                 Back |-> "{{FrontSide}}<hr id=answer>{{Answer}}{{Explanation}}{{KeyPoints}}{{Reference}}"]>>])
           created  == anki_request("createModel", Respond(Len(calls) + 2, I(1)))
       IN  IF ~existing.ok
           THEN /\ Crash(existing, Append(calls, names))
                /\ UNCHANGED <<srvModel, out>>
           ELSE IF InList(MODEL_NAME, existing.value.v)
           THEN IF ~existing_fields.ok
                THEN /\ Crash(existing_fields, calls \o <<names, fieldsOf>>)
                     /\ UNCHANGED <<srvModel, out>>
                ELSE IF missing # <<>>
                THEN /\ calls' = calls \o <<names, fieldsOf>>
                     /\ out' = Append(out, [kind |-> "model is missing fields"])
                     /\ pc' = "exited"
                     /\ err' = Exit(1)
                     /\ UNCHANGED srvModel
                ELSE /\ calls' = calls \o <<names, fieldsOf>>
                     /\ pc' = "files"
                     /\ UNCHANGED <<srvModel, out, err>>
           ELSE IF ~created.ok
           THEN /\ Crash(created, calls \o <<names, create>>)
                /\ out' = Append(out, [kind |-> "creating model"])
                /\ UNCHANGED srvModel
           ELSE /\ calls' = calls \o <<names, create>>
                /\ srvModel' = [names |-> Append(srvModel.names, MODEL_NAME),
                                fields |-> MODEL_FIELDS]
                /\ out' = out \o <<[kind |-> "creating model"], [kind |-> "model created"]>>
                /\ pc' = "files"
                /\ err' = err
    /\ UNCHANGED <<srvNotes, fileIdx, cur, totals, resps, reads, hist>>
    /\ UNCHANGED <<renderVars, clientVars, pushVars, envVars, orderVars>>

\* A faulty comprehension: a card that raises is skipped and the rest go on
RECURSIVE BuildNotesSkipping(_, _, _)
BuildNotesSkipping(cards, deck_name, notes) ==
    IF cards = <<>> THEN Return(notes)
    ELSE LET note == card_to_note(Head(cards), deck_name)
         IN  BuildNotesSkipping(Tail(cards), deck_name,
                                IF note.ok THEN Append(notes, note.value) ELSE notes)

\* [card_to_note(c, deck_name) for c in cards]: the notes, or the exception of
\* the first card that raises one
RECURSIVE BuildNotes(_, _, _)
BuildNotes(cards, deck_name, notes) ==
    IF cards = <<>> THEN Return(notes)
    ELSE LET note == card_to_note(Head(cards), deck_name)
         IN  IF ~note.ok THEN note
             ELSE BuildNotes(Tail(cards), deck_name, Append(notes, note.value))

FileReturns(path, before, after, created, duplicates) ==
    [idx |-> fileIdx, path |-> path, before |-> before, after |-> after,
     created |-> created, duplicates |-> duplicates]

\* A faulty process_file: a path that does not exist ends the run
FileNotFoundFatal(filepath) ==
    /\ out' = Append(out, [kind |-> "file not found", path |-> filepath])
    /\ pc' = "exited"
    /\ err' = Exit(1)
    /\ UNCHANGED <<totals, hist, fileIdx, calls, reads, cur>>

\* process_file(filepath) for a path that does not exist: it returns (0, 0),
\* which main() adds to the totals before it goes on to the next path
FileNotFound(filepath) ==
    /\ out' = Append(out, [kind |-> "file not found", path |-> filepath])
    /\ totals' = [created |-> totals.created + 0,
                  duplicates |-> totals.duplicates + 0]
    /\ hist' = Append(hist, FileReturns(filepath, srvNotes, srvNotes, 0, 0))
    /\ fileIdx' = fileIdx + 1
    /\ UNCHANGED <<pc, err, calls, reads, cur>>

\* process_file(filepath) for a file that exists, up to its call of push_notes
OpenFile(filepath) ==
    LET data    == Disk(filepath)
        deck    == Call("createDeck", data.deckName)
        ensured == anki_request("createDeck", Respond(Len(calls) + 1, I(1)))
        notes   == BuildNotes(data.cards, data.deckName, <<>>)
    IN  /\ reads' = Append(reads, filepath)
        /\ out' = Append(out, [kind |-> "deck", deckName |-> data.deckName,
                               cards |-> Len(data.cards)])
        /\ UNCHANGED <<totals, hist, fileIdx>>
        /\ IF ~ensured.ok
           THEN /\ Crash(ensured, Append(calls, deck))
                /\ UNCHANGED cur
           ELSE IF ~notes.ok
           THEN /\ Crash(notes, Append(calls, deck))
                /\ UNCHANGED cur
           ELSE /\ calls' = Append(calls, deck)
                /\ cur' = [path |-> filepath, deckName |-> data.deckName,
                           notes |-> notes.value, frame |-> PushStart,
                           before |-> srvNotes]
                /\ pc' = "push"
                /\ err' = err

\* main() calling process_file on the next path
ProcessFile ==
    /\ pc = "files"
    /\ fileIdx <= Len(argv)
    /\ IF ~Disk(argv[fileIdx]).exists
       THEN FileNotFound(argv[fileIdx])
       ELSE OpenFile(argv[fileIdx])
    /\ UNCHANGED <<srvModel, srvNotes, resps>>
    /\ UNCHANGED <<renderVars, clientVars, pushVars, envVars, orderVars>>

\* One pass of the loop of push_notes: one addNotes call and its tally
PushBatch ==
    /\ pc = "push"
    /\ PushMore(cur.frame, cur.notes)
    /\ LET batch  == Batch(cur.notes, cur.frame.i)
           n      == Len(calls) + 1
           served == ServerAdd(srvNotes, srvNotes, batch, <<>>)
           resp   == Respond(n, L(served.slots))
           pass   == PushPass(cur.frame, resp)
       IN  /\ srvNotes' = IF failAt.n = n THEN srvNotes ELSE served.stored
           /\ IF pass.ok
              THEN /\ calls' = Append(calls, Call("addNotes", batch))
                   /\ resps' = Append(resps, [idx |-> fileIdx, slots |-> resp["result"].v])
                   /\ cur' = [cur EXCEPT !.frame = pass.value]
                   /\ UNCHANGED <<pc, err>>
              ELSE /\ Crash(pass, Append(calls, Call("addNotes", batch)))
                   /\ UNCHANGED <<resps, cur>>
    /\ UNCHANGED <<srvModel, fileIdx, totals, reads, out, hist>>
    /\ UNCHANGED <<renderVars, clientVars, pushVars, envVars, orderVars>>

\* push_notes returning, process_file printing and returning the two counts,
\* main() adding them to the totals
PushReturn ==
    /\ pc = "push"
    /\ ~PushMore(cur.frame, cur.notes)
    /\ out' = Append(out, [kind |-> "file", idx |-> fileIdx,
                           created |-> cur.frame.created,
                           duplicates |-> cur.frame.duplicates])
    /\ totals' = [created |-> totals.created + cur.frame.created,
                  duplicates |-> totals.duplicates + cur.frame.duplicates]
    /\ hist' = Append(hist, FileReturns(cur.path, cur.before, srvNotes,
                                        cur.frame.created, cur.frame.duplicates))
    /\ fileIdx' = fileIdx + 1
    /\ cur' = Idle
    /\ pc' = "files"
    /\ UNCHANGED <<srvModel, srvNotes, calls, resps, reads, err>>
    /\ UNCHANGED <<renderVars, clientVars, pushVars, envVars, orderVars>>

\* main() after its loop over the files
Finish ==
    /\ pc = "files"
    /\ fileIdx > Len(argv)
    /\ out' = Append(out, [kind |-> "total", created |-> totals.created,
                           duplicates |-> totals.duplicates])
    /\ pc' = "done"
    /\ UNCHANGED <<srvModel, srvNotes, fileIdx, cur, totals, calls, resps, reads, err, hist>>
    /\ UNCHANGED <<renderVars, clientVars, pushVars, envVars, orderVars>>

-----------------------------------------------------------------------------
(* push_notes on its own: a list of notes (push_notes never looks inside a   *)
(* note, so note j is the number j) against a server that answers each       *)
(* addNotes call as it likes.                                                *)

MaxNotes == 25

\* The answers to an addNotes call that carries n notes
AddNotesResponses(n) ==
    {OkResponse(L([j \in 1..n |-> I(j)])),
     OkResponse(L([j \in 1..n |-> NULL])),
     OkResponse(L([j \in 1..n |-> IF j % 2 = 1 THEN NULL ELSE I(j)])),
     ("result" :> L([j \in 1..n |-> IF j = 1 THEN NULL ELSE I(j)]))
         @@ ("error" :> L(<<S(<<"d","u","p">>)>>)),
     OkResponse(L([j \in 1..(n - 1) |-> I(j)])),
     OkResponse(L([j \in 1..(n + 1) |-> IF j > n THEN NULL ELSE I(j)])),
     ErrResponse,
     NoResponse}

\* One pass of the loop of push_notes
PushCall ==
    /\ pstate = "running"
    /\ PushMore(pframe, pnotes)
    /\ \E resp \in AddNotesResponses(Len(Batch(pnotes, pframe.i))) :
         LET pass == PushPass(pframe, resp)
         IN  /\ pcalls' = Append(pcalls, Batch(pnotes, pframe.i))
             /\ presps' = Append(presps, resp)
             /\ IF pass.ok
                THEN pframe' = pass.value /\ pstate' = pstate
                ELSE pframe' = pframe /\ pstate' = "raised"
    /\ UNCHANGED <<pnotes, renderVars, clientVars, envVars, orderVars, runVars>>

\* push_notes returning (created, duplicates)
PushDone ==
    /\ pstate = "running"
    /\ ~PushMore(pframe, pnotes)
    /\ pstate' = "returned"
    /\ UNCHANGED <<pnotes, pframe, pcalls, presps>>
    /\ UNCHANGED <<renderVars, clientVars, envVars, orderVars, runVars>>

-----------------------------------------------------------------------------
(* card_to_note on its own, and the request primitives on their own *)

BuildNote ==
    /\ rout = Pending
    /\ rout' = card_to_note(rcard, RenderDeck)
    /\ UNCHANGED <<rcard, clientVars, pushVars, envVars, orderVars, runVars>>

SendRequest ==
    /\ qout = Pending
    /\ qout' = Request(qaction, qresp)
    /\ UNCHANGED <<qaction, qresp, renderVars, pushVars, envVars, orderVars, runVars>>

-----------------------------------------------------------------------------
(* The ordering list in the page.  wrap_order_items renders item i (from 0) *)
(* as <li id="ord_i"> whose first span shows "i+1." and whose buttons call *)
(* moveItem('ord_i', -1) and moveItem('ord_i', 1); the script shuffles the *)
(* list once, from a timer.  A child of the list is [id, num]: the i of its *)
(* id and the number its first span shows.                                 *)

MaxItems == 4

\* The children of #orderList as rendered for n items
OrderList(n) == [p \in 1..n |-> [id |-> p - 1, num |-> p]]

\* The index (from 0) of the child with the id in the list, -1 when it has none
IndexOfId(list, elId) ==
    IF \E p \in 1..Len(list) : list[p].id = elId
    THEN (CHOOSE p \in 1..Len(list) : list[p].id = elId) - 1
    ELSE -1

\* parent.insertBefore(node, ref): node leaves its place and goes before ref
insertBefore(list, node, ref) ==
    LET rest == SelectSeq(list, LAMBDA x : x.id # node.id)
        r    == IndexOfId(rest, ref.id) + 1
    IN  SubSeq(rest, 1, r - 1) \o <<node>> \o SubSeq(rest, r, Len(rest))

\* parent.appendChild(node): node leaves its place and goes last
appendChild(list, node) ==
    Append(SelectSeq(list, LAMBDA x : x.id # node.id), node)

\* renumber()
renumber(list) == [p \in 1..Len(list) |-> [list[p] EXCEPT !.num = p]]

\* A faulty moveItem: both directions insert el before items[target]
moveItemOneBranch(list, elId, dir) ==
    LET curIdx == IndexOfId(list, elId)
        target == curIdx + dir
    IN  IF curIdx < 0 THEN list
        ELSE IF target < 0 \/ target >= Len(list) THEN list
        ELSE renumber(insertBefore(list, list[curIdx + 1], list[target + 1]))

\* moveItem(elId, dir)
moveItem(list, elId, dir) ==
    LET curIdx == IndexOfId(list, elId)
        target == curIdx + dir
    IN  IF curIdx < 0 THEN list
        ELSE IF target < 0 \/ target >= Len(list) THEN list
        ELSE IF dir = -1
        THEN renumber(insertBefore(list, list[curIdx + 1], list[target + 1]))
        ELSE renumber(insertBefore(list, list[target + 1], list[curIdx + 1]))

\* The values j = Math.floor(Math.random() * (i + 1)) can take in the passes
\* i = n - 1, ..., 1 of the first loop of shuffleOrder: 0 <= j <= i
Draws(n) == {d \in [1..(n - 1) -> 0..(n - 1)] : \A i \in 1..(n - 1) : d[i] <= i}

\* for (var i = items.length - 1; i > 0; i--) { swap items[i], items[j] }
RECURSIVE ShuffleLoop(_, _, _)
ShuffleLoop(items, i, draws) ==
    IF i <= 0 THEN items
    ELSE ShuffleLoop([items EXCEPT ![i + 1] = items[draws[i] + 1],
                                   ![draws[i] + 1] = items[i + 1]],
                     i - 1, draws)

\* for (var i = 0; i < items.length; i++) list.appendChild(items[i])
RECURSIVE AppendAll(_, _)
AppendAll(list, items) ==
    IF items = <<>> THEN list
    ELSE AppendAll(appendChild(list, Head(items)), Tail(items))

\* shuffleOrder(), given the values its random draws take
shuffleOrder(list, draws) ==
    renumber(AppendAll(list, ShuffleLoop(list, Len(list) - 1, draws)))

NoEvent == [kind |-> "none", id |-> 0, dir |-> 0, draws |-> <<>>]

\* setTimeout(shuffleOrder, 0): the timer fires, once
ShuffleOrder ==
    /\ ~oshuffled
    /\ \E draws \in Draws(Len(olist)) :
          /\ olist' = shuffleOrder(olist, draws)
          /\ olast' = [kind |-> "shuffle", id |-> 0, dir |-> 0, draws |-> draws]
    /\ oshuffled' = TRUE
    /\ oprev' = olist
    /\ UNCHANGED <<ocount, renderVars, clientVars, pushVars, envVars, runVars>>

\* A click on the up or the down button of an item
ClickMove ==
    /\ \E i \in 0..(ocount - 1), dir \in {-1, 1} :
          /\ olist' = moveItem(olist, i, dir)
          /\ olast' = [kind |-> "move", id |-> i, dir |-> dir, draws |-> <<>>]
    /\ oprev' = olist
    /\ UNCHANGED <<ocount, oshuffled, renderVars, clientVars, pushVars, envVars, runVars>>

-----------------------------------------------------------------------------
(* The specifications *)

NoFail == [n |-> 0, kind |-> "none"]

RenderIdle == rcard = <<>> /\ rout = Pending
ClientIdle == qaction = "" /\ qresp = NoResponse /\ qout = Pending
PushIdle ==
    /\ pnotes = <<>> /\ pframe = PushStart /\ pcalls = <<>> /\ presps = <<>>
    /\ pstate = "idle"
OrderIdle ==
    /\ ocount = 0 /\ olist = <<>> /\ oshuffled = FALSE /\ oprev = <<>>
    /\ olast = NoEvent
RunIdle ==
    /\ argv = <<>> /\ srvSeq = TRUE /\ failAt = NoFail
    /\ srv0 = [models |-> [names |-> <<>>, fields |-> <<>>], notes |-> <<>>]
    /\ srvModel = srv0.models /\ srvNotes = srv0.notes
    /\ pc = "idle" /\ fileIdx = 1 /\ cur = Idle
    /\ totals = [created |-> 0, duplicates |-> 0]
    /\ calls = <<>> /\ resps = <<>> /\ reads = <<>> /\ out = <<>>
    /\ err = NoErr /\ hist = <<>>

\* sys.argv[1:]: nothing, the delete mode, or up to MaxFiles paths
ArgvChoices ==
    {<<>>, <<"--delete-deck">>}
    \cup {<<"--delete-deck", d>> : d \in DeckNames}
    \cup UNION {[1..n -> Paths] : n \in 1..MaxFiles}

FailChoices ==
    {NoFail} \cup {[n |-> n, kind |-> k] : n \in 1..MaxFailAt, k \in {"neterr", "error"}}

RunInit ==
    /\ argv \in ArgvChoices
    /\ srvSeq \in BOOLEAN
    /\ failAt \in FailChoices
    /\ srv0 \in [models : InitialModels, notes : InitialNotes]
    /\ srvModel = srv0.models
    /\ srvNotes = srv0.notes
    /\ pc = "start" /\ fileIdx = 1 /\ cur = Idle
    /\ totals = [created |-> 0, duplicates |-> 0]
    /\ calls = <<>> /\ resps = <<>> /\ reads = <<>> /\ out = <<>>
    /\ err = NoErr /\ hist = <<>>

Init == RenderIdle /\ ClientIdle /\ PushIdle /\ OrderIdle /\ RunInit

Next ==
    \/ ParseArgs
    \/ CheckConnection
    \/ DeleteDeck
    \/ EnsureModel
    \/ ProcessFile
    \/ PushBatch
    \/ PushReturn
    \/ Finish

\* A run of main()
Spec == Init /\ [][Next]_vars

PushInit ==
    /\ RenderIdle /\ ClientIdle /\ RunIdle /\ OrderIdle
    /\ pnotes \in {[j \in 1..n |-> j] : n \in 0..MaxNotes}
    /\ pframe = PushStart /\ pcalls = <<>> /\ presps = <<>>
    /\ pstate = "running"

PushNext == PushCall \/ PushDone

\* push_notes(notes)
SpecPush == PushInit /\ [][PushNext]_vars

RenderInit ==
    /\ ClientIdle /\ PushIdle /\ RunIdle /\ OrderIdle
    /\ rcard \in Cards
    /\ rout = Pending

RenderNext == BuildNote

\* card_to_note(card, deck_name)
SpecNote == RenderInit /\ [][RenderNext]_vars

ClientInit ==
    /\ RenderIdle /\ PushIdle /\ RunIdle /\ OrderIdle
    /\ qaction \in API_ACTIONS
    /\ qresp \in Responses
    /\ qout = Pending

ClientNext == SendRequest

\* anki_request / anki_request_addnotes
SpecClient == ClientInit /\ [][ClientNext]_vars

OrderInit ==
    /\ RenderIdle /\ ClientIdle /\ PushIdle /\ RunIdle
    /\ ocount \in 0..MaxItems
    /\ olist = OrderList(ocount)
    /\ oshuffled = FALSE
    /\ oprev = olist
    /\ olast = NoEvent

OrderNext == ShuffleOrder \/ ClickMove

\* The ordering list of a card in the page
SpecOrder == OrderInit /\ [][OrderNext]_vars

-----------------------------------------------------------------------------
(* Claims about push_notes (SpecPush) *)

\* The result list of the k-th addNotes response push_notes went through
PSlots(k) == presps[k]["result"].v

\* Every call so far got one result slot per note it submitted
POneSlotPerNote == \A k \in 1..Len(pcalls) : Len(PSlots(k)) = Len(pcalls[k])

\* C1: for a list of N notes push_notes issues exactly ceil(N/10) addNotes
\* calls (none when N = 0); the k-th call carries notes 10(k-1)+1 .. min(10k, N)
\* in their original order, so every call but the last carries 10 notes, the
\* last between 1 and 10, and every note is submitted exactly once; when each
\* call returned one result slot per submitted note, created + duplicates = N.
C1_Batches ==
    LET n == Len(pnotes)
    IN  /\ \A k \in 1..Len(pcalls) :
              pcalls[k] = [j \in 1..(Min(10 * k, n) - 10 * (k - 1)) |->
                              pnotes[10 * (k - 1) + j]]
        /\ pstate = "returned" =>
              /\ Len(pcalls) = (n + 9) \div 10
              /\ \A k \in 1..(Len(pcalls) - 1) : Len(pcalls[k]) = 10
              /\ Len(pcalls) > 0 => Len(pcalls[Len(pcalls)]) \in 1..10
              /\ \A j \in 1..n :
                    Cardinality({<<k, m>> \in (1..Len(pcalls)) \X (1..10) :
                                    m <= Len(pcalls[k]) /\ pcalls[k][m] = pnotes[j]}) = 1
              /\ POneSlotPerNote => pframe.created + pframe.duplicates = n

\* C1 witness: 25 notes were pushed in calls of 10, 10 and 5 notes, each
\* answered with one slot per note, some null and some not, and the counts
\* sum to 25
C1_Witness ==
    /\ pstate = "returned"
    /\ Len(pnotes) = 25
    /\ [k \in 1..Len(pcalls) |-> Len(pcalls[k])] = <<10, 10, 5>>
    /\ POneSlotPerNote
    /\ pframe.created > 0 /\ pframe.duplicates > 0
    /\ pframe.created + pframe.duplicates = 25

-----------------------------------------------------------------------------
(* Claims about the request primitives (SpecClient) *)

\* The request was answered by a response object that has a result
QAnswered == qout # Pending /\ Arrived(qresp) /\ "result" \in DOMAIN qresp
QError == Get(qresp, "error", NULL)
QRaised == ~qout.ok

\* The values Python takes for false: None, "", 0, False, []
Falsy == {NULL, S(<<>>), I(0), B(FALSE), L(<<>>)}

\* C8 as stated: for every action a failure is raised exactly when the error
\* field is a non-null scalar; a null error yields the result and a
\* list-shaped error never raises.
C8_Original ==
    QAnswered =>
        /\ QRaised <=> QError.t \in {"str", "int", "bool"}
        /\ QError = NULL => qout = Return(qresp["result"])

\* C8 amended: anki_request (every action but addNotes) raises exactly when the
\* error field is truthy (not None, "", 0, False or []), a non-empty list
\* included; anki_request_addnotes raises exactly when it is truthy and not a
\* list; a response that does not raise yields its result.
C8_Amended ==
    QAnswered =>
        /\ qaction # "addNotes" => (QRaised <=> QError \notin Falsy)
        /\ qaction = "addNotes" => (QRaised <=> (QError \notin Falsy /\ QError.t # "list"))
        /\ ~QRaised => qout = Return(qresp["result"])

\* C8 witness: an addNotes response with a non-empty list-shaped error was not
\* fatal and yielded its result
C8_Witness ==
    /\ QAnswered
    /\ qaction = "addNotes"
    /\ QError.t = "list" /\ QError.v # <<>>
    /\ qout = Return(qresp["result"])

-----------------------------------------------------------------------------
(* Claims about card_to_note (SpecNote) *)

ENTITIES == {<<"&","a","m","p",";">>, <<"&","l","t",";">>, <<"&","g","t",";">>,
             <<"&","q","u","o","t",";">>, <<"&","#","x","2","7",";">>}

\* An entity starts at position i of chars
EntityAt(chars, i) ==
    \E e \in ENTITIES :
        /\ i + Len(e) - 1 <= Len(chars)
        /\ \A j \in 1..Len(e) : chars[i + j - 1] = e[j]

\* <, > and " do not occur in chars, and & only as the start of an entity
NoRawSpecials(chars) ==
    \A i \in 1..Len(chars) :
        /\ chars[i] \notin {"<", ">", "\""}
        /\ chars[i] = "&" => EntityAt(chars, i)

\* C10: in every field of a Note that card_to_note returns, the text that
\* comes from the card holds <, >, & and " only as escaped entities, never raw.
C10_Escaped ==
    rout.ok =>
        \A f \in DOMAIN rout.value.fields :
            \A j \in 1..Len(rout.value.fields[f]) :
                rout.value.fields[f][j].k = "u" =>
                    NoRawSpecials(rout.value.fields[f][j].s)

-----------------------------------------------------------------------------
(* Claims about a run of main() (Spec) *)

PushMode == Len(argv) >= 1 /\ argv[1] # "--delete-deck"
DeleteMode == Len(argv) >= 2 /\ argv[1] = "--delete-deck"

\* The positions in calls of the requests for action a
CallsOf(a) == {k \in 1..Len(calls) : calls[k].action = a}

\* The positions in calls of the requests sent while file i of argv was processed
CallsAt(i) == {k \in 1..Len(calls) : calls[k].at = i}

\* The result slots <<r, j>> of the addNotes responses of the given files
SlotsOf(files) ==
    UNION {{<<r, j>> : j \in 1..Len(resps[r].slots)} :
              r \in {r \in 1..Len(resps) : resps[r].idx \in files}}
NonNullSlots(files) ==
    Cardinality({p \in SlotsOf(files) : resps[p[1]].slots[p[2]] # NULL})
NullSlots(files) ==
    Cardinality({p \in SlotsOf(files) : resps[p[1]].slots[p[2]] = NULL})

\* C2: the total of created notes that a push run reports is the number of
\* non-null result slots, and the total of duplicates the number of null
\* slots, over every addNotes response of every batch of every file; each
\* per-file count is the same count over the responses to that file's batches.
C2_Totals ==
    \A e \in 1..Len(out) :
        /\ out[e].kind = "file" =>
              /\ out[e].created = NonNullSlots({out[e].idx})
              /\ out[e].duplicates = NullSlots({out[e].idx})
        /\ out[e].kind = "total" =>
              /\ pc = "done"
              /\ out[e].created = NonNullSlots(1..Len(argv))
              /\ out[e].duplicates = NullSlots(1..Len(argv))

\* C2 witness: a run over two files has completed; one file took two batches,
\* and the total counts both created notes and duplicates
C2_Witness ==
    /\ pc = "done"
    /\ \E r1, r2, r3 \in 1..Len(resps) :
          r1 < r2 /\ resps[r1].idx = resps[r2].idx /\ resps[r3].idx # resps[r1].idx
    /\ out[Len(out)].kind = "total"
    /\ out[Len(out)].created > 0
    /\ out[Len(out)].duplicates > 0
    /\ out[Len(out)].created + out[Len(out)].duplicates
          = Len(Disk(argv[1]).cards) + Len(Disk(argv[2]).cards)

\* C3: against a server that follows the duplicate convention, processing a
\* deck file a second time creates no note: the second pass reports 0 created
\* and as many duplicates as the file has cards, and leaves the server's notes
\* as it found them.
C3_Idempotent ==
    \A a, b \in 1..Len(hist) :
        (a < b /\ hist[a].path = hist[b].path /\ Disk(hist[b].path).exists) =>
            /\ hist[b].created = 0
            /\ hist[b].duplicates = Len(Disk(hist[b].path).cards)
            /\ hist[b].after = hist[b].before

\* C3 witness: the file of BigDeckSize cards was processed twice; the first
\* pass created notes, the second reported every card a duplicate
C3_Witness ==
    /\ Len(hist) >= 2
    /\ hist[1].path = "a.json" /\ hist[2].path = "a.json"
    /\ hist[1].created > 0
    /\ hist[2].created = 0
    /\ hist[2].duplicates = BigDeckSize
    /\ hist[2].after = hist[1].after

\* C4: in both modes the first request of a run is the version probe; when the
\* probe fails the process has exited with a non-zero status, has sent no
\* other request and has read no deck file.
C4_ProbeFirst ==
    /\ calls # <<>> => calls[1].action = "version"
    /\ reads # <<>> => (calls # <<>> /\ failAt.n # 1)
    /\ (calls # <<>> /\ failAt.n = 1) =>
          /\ pc = "exited"
          /\ err.status # 0
          /\ Len(calls) = 1
          /\ reads = <<>>
          /\ srvModel = srv0.models /\ srvNotes = srv0.notes

\* C4 witness: a push run over an existing file whose probe got no answer
C4_Witness ==
    /\ PushMode /\ Disk(argv[1]).exists
    /\ failAt = [n |-> 1, kind |-> "neterr"]
    /\ calls = <<[action |-> "version", params |-> <<>>, at |-> 0]>>
    /\ pc = "exited" /\ err.status = 1

\* For each path, the position of the first card that validate_card rejects:
\* 0 when there is no file or it rejects none
FirstRejected ==
    [path \in Paths |->
        IF ~Disk(path).exists THEN 0
        ELSE LET cards == Disk(path).cards
                 bad   == {j \in 1..Len(cards) : ~validate_card(cards[j]).ok}
             IN  IF bad = {} THEN 0 ELSE CHOOSE j \in bad : \A k \in bad : j <= k]

\* C5: when a card of a deck file fails validation the run aborts with an
\* error naming that card's id; no addNotes request is sent for any card of
\* the file, the card is not skipped, and no later file is processed.
C5_FailFast ==
    PushMode =>
        \A i \in 1..Len(argv) :
            LET file == Disk(argv[i])
            IN  FirstRejected[argv[i]] > 0 =>
                  /\ \A k \in CallsAt(i) : calls[k].action = "createDeck"
                  /\ \A k \in 1..Len(calls) : calls[k].at <= i
                  /\ \A h \in 1..Len(hist) : hist[h].idx < i
                  /\ Len(reads) <= i
                  /\ pc # "done"
                  /\ \A k \in CallsAt(i) :
                        /\ pc = "crashed"
                        /\ fileIdx = i
                        /\ failAt.n # k =>
                              /\ err.exc = "ValueError"
                              /\ err.by = "validate_card"
                              /\ err.status # 0
                              /\ err.msgId = file.cards[FirstRejected[argv[i]]]["id"]

\* C5 witness: the first file holds a valid card, then a card without
\* keyPoints, then a valid card; the run has aborted naming the second card,
\* with a second file still to come
C5_Witness ==
    /\ argv = <<"b.json", "a.json">>
    /\ pc = "crashed"
    /\ err.by = "validate_card"
    /\ err.msgId = S(<<"c", "2", "2">>)
    /\ CallsOf("createDeck") # {}
    /\ CallsOf("addNotes") = {}

RECURSIVE SumOf(_, _)
SumOf(h, field) == IF h = <<>> THEN 0 ELSE Head(h)[field] + SumOf(Tail(h), field)

\* C6: for a path that does not exist process_file sends no request and adds
\* 0 created and 0 duplicates to the totals, and the run continues: the
\* remaining files are processed in argument order and the total is printed.
C6_MissingFile ==
    PushMode =>
        /\ \A h \in 1..Len(hist) : hist[h].idx = h /\ hist[h].path = argv[h]
        /\ \A i \in 1..Len(argv) : ~Disk(argv[i]).exists =>
              /\ CallsAt(i) = {}
              /\ \A r \in 1..Len(reads) : reads[r] # argv[i]
        /\ \A h \in 1..Len(hist) : ~Disk(hist[h].path).exists =>
              /\ hist[h].created = 0 /\ hist[h].duplicates = 0
              /\ hist[h].after = hist[h].before
        /\ totals.created = SumOf(hist, "created")
        /\ totals.duplicates = SumOf(hist, "duplicates")
        /\ pc \in {"files", "push"} => fileIdx = Len(hist) + 1
        /\ (pc \in {"crashed", "exited"} /\ hist # <<>>) =>
              /\ Len(hist) < Len(argv)
              /\ Disk(argv[Len(hist) + 1]).exists
        /\ pc = "done" =>
              /\ Len(hist) = Len(argv)
              /\ out[Len(out)] = [kind |-> "total", created |-> totals.created,
                                  duplicates |-> totals.duplicates]

\* C6 witness: the first path does not exist, the second file was processed
\* after it and created notes, and the total was printed
C6_Witness ==
    /\ argv = <<"missing.json", "a.json">>
    /\ pc = "done"
    /\ hist[1].path = "missing.json" /\ hist[1].created = 0 /\ hist[1].duplicates = 0
    /\ hist[2].path = "a.json" /\ hist[2].created > 0
    /\ out[Len(out)].kind = "total"
    /\ out[Len(out)].created = hist[2].created

Registered == InList(MODEL_NAME, srv0.models.names)
Complete == \A j \in 1..Len(MODEL_FIELDS) : InList(MODEL_FIELDS[j], srv0.models.fields)

\* C7: in push mode the model is provisioned after the successful probe and
\* before any deck file is processed, with three outcomes: a model that is not
\* registered is created by exactly one createModel request with the 9 fields
\* and one front/back template; a model registered with all 9 fields gets no
\* createModel request; a model registered without one of them makes the
\* process exit non-zero with no createModel, createDeck or addNotes request.
C7_Provisioning ==
    PushMode =>
        /\ \A k \in CallsOf("modelNames") : k = 2 /\ failAt.n # 1
        /\ \A k \in CallsOf("modelFieldNames") \cup CallsOf("createModel") :
              k = 3 /\ failAt.n \notin {1, 2}
        /\ \A k \in CallsOf("createDeck") \cup CallsOf("addNotes") : k > 3
        /\ (reads # <<>> \/ hist # <<>> \/ pc \in {"files", "push", "done"}) =>
              (Len(calls) >= 3 /\ failAt.n \notin {1, 2, 3})
        /\ ~Registered =>
              /\ CallsOf("modelFieldNames") = {}
              /\ Len(calls) >= 3 =>
                    /\ CallsOf("createModel") = {3}
                    /\ calls[3].params.modelName = MODEL_NAME
                    /\ calls[3].params.inOrderFields = MODEL_FIELDS
                    /\ Len(MODEL_FIELDS) = 9
                    /\ Len(calls[3].params.cardTemplates) = 1
                    /\ DOMAIN calls[3].params.cardTemplates[1] = {"Name", "Front", "Back"}
        /\ (Registered /\ Complete) =>
              /\ CallsOf("createModel") = {}
              /\ Len(calls) >= 3 => calls[3].action = "modelFieldNames"
              /\ srvModel = srv0.models
        /\ (Registered /\ ~Complete) =>
              /\ CallsOf("createModel") = {}
              /\ CallsOf("createDeck") = {}
              /\ CallsOf("addNotes") = {}
              /\ reads = <<>>
              /\ srvModel = srv0.models
              /\ Len(calls) <= 3
              /\ (Len(calls) = 3 /\ failAt.n \notin {1, 2, 3}) =>
                    (pc = "exited" /\ err.status # 0)

\* C7 witness: the model is registered without its OrderItems field; the
\* process has exited with status 1 after the probe, modelNames and
\* modelFieldNames
C7_Witness ==
    /\ PushMode /\ Disk(argv[1]).exists
    /\ Registered /\ ~Complete
    /\ failAt = NoFail
    /\ [k \in 1..Len(calls) |-> calls[k].action]
          = <<"version", "modelNames", "modelFieldNames">>
    /\ pc = "exited" /\ err.status = 1

\* C9: delete_deck_cards sends exactly one findNotes query for the named
\* deck; when the query finds no note it sends no deleteNotes request and the
\* count is 0; when it finds k > 0 notes it sends exactly one deleteNotes
\* request carrying those k ids and the count is k.
C9_Delete ==
    DeleteMode =>
        LET ids == ServerFind(srv0.notes, argv[2])
        IN  /\ \A k \in CallsOf("findNotes") : k = 2 /\ calls[k].params = argv[2]
            /\ \A k \in CallsOf("deleteNotes") :
                  k = 3 /\ ids # <<>> /\ calls[k].params = L(ids)
            /\ pc = "done" =>
                  /\ CallsOf("findNotes") = {2}
                  /\ out[Len(out)] = [kind |-> "deleted", count |-> Len(ids)]
                  /\ ids = <<>> => (CallsOf("deleteNotes") = {} /\ srvNotes = srv0.notes)
                  /\ ids # <<>> =>
                        /\ CallsOf("deleteNotes") = {3}
                        /\ ServerFind(srvNotes, argv[2]) = <<>>

\* C9 witness: the query found two notes in the deck; one deleteNotes request
\* carried both ids and the count printed is 2
C9_Witness ==
    /\ DeleteMode /\ pc = "done"
    /\ Len(ServerFind(srv0.notes, argv[2])) = 2
    /\ Len(calls) = 3
    /\ calls[3].action = "deleteNotes"
    /\ calls[3].params = L(ServerFind(srv0.notes, argv[2]))
    /\ out[Len(out)].count = 2

-----------------------------------------------------------------------------
(* Further claims about card_to_note (SpecNote) *)

\* The declared type of the card being built, single-choice when it has none
RType == Get(rcard, "type", S(T_SINGLE)).v

\* C11: every Note that card_to_note returns has a field map whose keys are
\* exactly the 9 model fields, and the fields that do not apply to the card's
\* type are empty: OrderItems and CodeBlock for single-choice and
\* multi-select, Options and CodeBlock for ordering, Options and OrderItems
\* for code-hotarea.
C11_NineFields ==
    rout.ok =>
        LET fields == rout.value.fields
        IN  /\ DOMAIN fields = {MODEL_FIELDS[j] : j \in 1..Len(MODEL_FIELDS)}
            /\ Cardinality(DOMAIN fields) = 9
            /\ RType \in {T_SINGLE, T_MULTI, T_ORDERING, T_HOTAREA}
            /\ RType \in {T_SINGLE, T_MULTI} =>
                  (fields.OrderItems = <<>> /\ fields.CodeBlock = <<>>)
            /\ RType = T_ORDERING =>
                  (fields.Options = <<>> /\ fields.CodeBlock = <<>>)
            /\ RType = T_HOTAREA =>
                  (fields.Options = <<>> /\ fields.OrderItems = <<>>)

\* C11 witness: an ordering card that lists options and code lines too was
\* built into a Note whose Options and CodeBlock are empty and whose
\* OrderItems is not
C11_Witness ==
    /\ rout.ok
    /\ RType = T_ORDERING
    /\ "options" \in DOMAIN rcard /\ "codeLines" \in DOMAIN rcard
    /\ rout.value.fields.Options = <<>>
    /\ rout.value.fields.CodeBlock = <<>>
    /\ rout.value.fields.OrderItems # <<>>

\* C14: every card of one of the four known types (single-choice when it
\* declares none) that passes validate_card is built into a Note by
\* card_to_note, which raises no error; a single-choice card that has the
\* four required fields builds whatever the shape of its answer.
C14_ValidationSuffices ==
    (/\ rout # Pending
     /\ RType \in {T_SINGLE, T_MULTI, T_ORDERING, T_HOTAREA}
     /\ validate_card(rcard).ok) => rout.ok

-----------------------------------------------------------------------------
(* Claims about the ordering list (SpecOrder) *)

\* The ids of the children of a list, in position order
IdsOf(list) == [p \in 1..Len(list) |-> list[p].id]

\* The list holds each of the ocount rendered items exactly once
IsPermutation(list) ==
    /\ Len(list) = ocount
    /\ \A i \in 0..(ocount - 1) :
          Cardinality({p \in 1..Len(list) : list[p].id = i}) = 1

\* C12: for an ordering card with at least two items, once the initial
\* shuffle has run the visible order is a permutation of the canonical items
\* that is not the canonical order, whatever values the random draws take.
C12_NeverCanonical ==
    (olast.kind = "shuffle" /\ ocount >= 2) =>
        /\ IsPermutation(olist)
        /\ IdsOf(olist) # IdsOf(OrderList(ocount))

\* The list a with the children at positions p and q (from 1) exchanged
Exchanged(a, p, q) == [a EXCEPT ![p] = a[q], ![q] = a[p]]

\* C13: after any sequence of up/down clicks the list is a permutation of the
\* rendered items, none lost or duplicated; a click on the item at position p
\* exchanges it with the item at p-1 (up) or p+1 (down) and leaves every
\* other item where it was; up on the first item and down on the last change
\* nothing; and the numbers shown are 1..n in position order.
C13_Moves ==
    /\ IsPermutation(olist)
    /\ \A p \in 1..Len(olist) : olist[p].num = p
    /\ olast.kind = "move" =>
          LET p == IndexOfId(oprev, olast.id) + 1
              q == p + olast.dir
          IN  /\ p \in 1..ocount
              /\ q \in 1..ocount => IdsOf(olist) = Exchanged(IdsOf(oprev), p, q)
              /\ q \notin 1..ocount => olist = oprev

\* C13 witness: in a list of three or more items, shuffled out of its
\* rendered order, a click moved a middle item down and changed the list
C13_Witness ==
    /\ ocount >= 3
    /\ oshuffled
    /\ olast.kind = "move" /\ olast.dir = 1
    /\ IdsOf(oprev) # IdsOf(OrderList(ocount))
    /\ IndexOfId(oprev, olast.id) = 1
    /\ IndexOfId(olist, olast.id) = 2
    /\ IdsOf(olist) # IdsOf(oprev)

=============================================================================
